---------------------------- MODULE Spec2Model ----------------------------
(***************************************************************************)
(* electrumx_rpc: the command-line client that sends one RPC to a running  *)
(* ElectrumX server (src/src/electrumx/cli/electrumx_rpc.py).              *)
(*                                                                         *)
(* One behaviour of the model is one invocation of main(): the command     *)
(* line is parsed by the argparse grammar built from the three command     *)
(* tables, then send_request() runs as the single task of the event loop:  *)
(* timeout_after(timeout) around connect_rs(...) around the call and the   *)
(* rendering of its result, with the two except clauses around it all.     *)
(* The steps of the model are the task's runs between two suspensions      *)
(* (await points), the events that resume it, and the passing of time.     *)
(***************************************************************************)
EXTENDS Integers, Sequences, FiniteSets, TLC

(***************************************************************************)
(* Bounds of the model.                                                    *)
(***************************************************************************)
\* longest list of tokens after the sub-command name
MaxTail == 4
\* longest list of tokens after the sub-command name in the fair runs
LiveMaxTail == 2
\* number of one-second clock steps taken before the clock is only
\* followed up to the deadline
MaxTick == 2

(***************************************************************************)
(* Python values.  None is the empty option, Some(x) the singleton.        *)
(***************************************************************************)
None == {}
Some(x) == {x}
TheValue(o) == CHOOSE x \in o : TRUE

\* the value of `command` when no sub-command was given (Python None)
NoCommand == "<None>"

(***************************************************************************)
(* Command-line tokens.  A token is option-like when it starts with '-'    *)
(* (argparse's prefix_chars); int(token) succeeds on the decimal tokens.   *)
(***************************************************************************)
OptionLikeTokens == {"-p", "--port", "--timeout", "-l", "--limit", "--bogus"}
IntTokens == {"5", "9000"}

IsOptionLike(tok) == tok \in OptionLikeTokens

\* int(tok): defined on the decimal tokens only (ValueError otherwise)
IntOf(tok) == CASE tok = "5" -> 5
                [] tok = "9000" -> 9000

\* type(tok) of an add_argument(type=...): the converted value, or None
\* when the conversion raises
Coerce(type, tok) ==
    IF type = "int"
    THEN IF tok \in IntTokens THEN Some(IntOf(tok)) ELSE None
    ELSE Some(tok)

(***************************************************************************)
(* The command tables.                                                     *)
(***************************************************************************)
simple_commands == {"getinfo", "groups", "peers", "sessions", "stop"}

session_commands == {"disconnect", "log"}

\* One add_argument call: flags (empty for a positional), dest, type,
\* nargs ("1" when not given) and the default (None when not given).
ArgDef(flags, dest, type, nargs, default) ==
    [flags |-> flags, dest |-> dest, type |-> type,
     nargs |-> nargs, default |-> default]

other_commands ==
    [add_peer |-> << ArgDef({}, "real_name", "str", "1", None) >>,
     daemon_url |-> << ArgDef({}, "daemon_url", "str", "?", Some("")) >>,
     query |-> << ArgDef({"-l", "--limit"}, "limit", "int", "1", Some(1000)),
                  ArgDef({}, "items", "str", "+", None) >>,
     reorg |-> << ArgDef({}, "count", "int", "1", Some(3)) >>,
     debug_memusage_list_all_objects |->
               << ArgDef({"--limit"}, "limit", "int", "1", Some(50)) >>,
     debug_memusage_get_random_backref_chain |->
               << ArgDef({}, "objtype", "str", "1", None) >>]

Commands == simple_commands \cup session_commands \cup DOMAIN other_commands

\* the arguments main() adds to the sub-parser of `command`
SubparserArgs(command) ==
    IF command \in simple_commands THEN << >>
    ELSE IF command \in session_commands
         THEN << ArgDef({}, "session_ids", "str", "+", None) >>
         ELSE other_commands[command]

(***************************************************************************)
(* argparse.  A parse is [ok, ns]: ns is the namespace (dest -> option).   *)
(***************************************************************************)
UsageError == [ok |-> FALSE, ns |-> << >>]

\* a positional without nargs, or with '+', must be given
\* (argparse._get_positional_kwargs); its default is then never used
IsRequired(def) == def.flags = {} /\ def.nargs \in {"1", "+"}

\* the namespace before any token is read: every dest with its default
InitialNamespace(defs) ==
    [d \in {defs[k].dest : k \in DOMAIN defs} |->
        LET k == CHOOSE j \in DOMAIN defs : defs[j].dest = d
        IN  IF defs[k].default = None THEN None
            ELSE Some(TheValue(defs[k].default))]

\* the option of defs whose flags hold tok, or 0
OptionIndex(defs, tok) ==
    IF \E k \in DOMAIN defs : tok \in defs[k].flags
    THEN CHOOSE k \in DOMAIN defs : tok \in defs[k].flags
    ELSE 0

\* the first positional of defs after index `after`, or 0
NextPositional(defs, after) ==
    IF \E k \in DOMAIN defs : k > after /\ defs[k].flags = {}
    THEN CHOOSE k \in DOMAIN defs :
            /\ k > after /\ defs[k].flags = {}
            /\ \A j \in DOMAIN defs : (j > after /\ defs[j].flags = {}) => k <= j
    ELSE 0

\* the end of the run of argument tokens (not option-like) starting at i
RECURSIVE RunEnd(_, _)
RunEnd(toks, i) ==
    IF i + 1 <= Len(toks) /\ ~IsOptionLike(toks[i + 1])
    THEN RunEnd(toks, i + 1)
    ELSE i

\* every token of toks[i..j] converted, or None when one conversion raises
CoerceAll(type, toks, i, j) ==
    IF \A k \in i..j : Coerce(type, toks[k]) # None
    THEN Some([k \in 1..(j - i + 1) |-> TheValue(Coerce(type, toks[i + k - 1]))])
    ELSE None

\* ArgumentParser.parse_args of a parser holding defs, from token i on:
\* an option takes the next token if it is an argument token; positionals
\* are taken from the first run of argument tokens met; a token no action
\* takes is an error ("unrecognized arguments"), and so is a required
\* positional left unfilled.  lastPos is the last positional filled.
RECURSIVE ParseTokens(_, _, _, _, _)
ParseTokens(defs, toks, i, ns, lastPos) ==
    IF i > Len(toks)
    THEN IF \E k \in DOMAIN defs : k > lastPos /\ IsRequired(defs[k])
         THEN UsageError
         ELSE [ok |-> TRUE, ns |-> ns]
    ELSE LET tok == toks[i] IN
      IF IsOptionLike(tok)
      THEN LET k == OptionIndex(defs, tok) IN
           IF k = 0 \/ i + 1 > Len(toks) THEN UsageError
           ELSE IF IsOptionLike(toks[i + 1]) THEN UsageError
           ELSE LET v == Coerce(defs[k].type, toks[i + 1]) IN
                IF v = None THEN UsageError
                ELSE ParseTokens(defs, toks, i + 2,
                                 [ns EXCEPT ![defs[k].dest] = v], lastPos)
      ELSE LET k == NextPositional(defs, lastPos) IN
           IF k = 0 THEN UsageError
           ELSE LET j == IF defs[k].nargs = "+" THEN RunEnd(toks, i) ELSE i
                    vs == CoerceAll(defs[k].type, toks, i, j)
                IN  IF vs = None THEN UsageError
                    ELSE ParseTokens(defs, toks, j + 1,
                            [ns EXCEPT ![defs[k].dest] =
                                IF defs[k].nargs = "+" THEN vs
                                ELSE Some(TheValue(vs)[1])],
                            k)

\* the main parser's own options: -p/--port and --timeout, both int
MainArgs ==
    << ArgDef({"-p", "--port"}, "port", "int", "1", None),
       ArgDef({"--timeout"}, "timeout", "int", "1", Some(30)) >>

\* f and g joined (disjoint domains)
Merge(f, g) ==
    [k \in DOMAIN f \cup DOMAIN g |-> IF k \in DOMAIN f THEN f[k] ELSE g[k]]

\* main_parser.parse_args(argv): the main options up to the first argument
\* token, which must name a sub-command and hands the rest of the line to
\* that sub-parser.  The sub-command itself is not required: without one
\* the namespace holds command = None.
RECURSIVE ParseMain(_, _, _)
ParseMain(argv, i, ns) ==
    IF i > Len(argv)
    THEN [ok |-> TRUE, ns |-> ns]
    ELSE LET tok == argv[i] IN
      IF IsOptionLike(tok)
      THEN LET k == OptionIndex(MainArgs, tok) IN
           IF k = 0 \/ i + 1 > Len(argv) THEN UsageError
           ELSE IF IsOptionLike(argv[i + 1]) THEN UsageError
           ELSE LET v == Coerce(MainArgs[k].type, argv[i + 1]) IN
                IF v = None THEN UsageError
                ELSE ParseMain(argv, i + 2,
                               [ns EXCEPT ![MainArgs[k].dest] = v])
      ELSE IF tok \notin Commands THEN UsageError
           ELSE LET defs == SubparserArgs(tok)
                    sub == ParseTokens(defs, argv, i + 1,
                                       InitialNamespace(defs), 0)
                IN  IF ~sub.ok THEN UsageError
                    ELSE [ok |-> TRUE,
                          ns |-> Merge([ns EXCEPT !["command"] = Some(tok)],
                                       sub.ns)]

parse_args(argv) ==
    ParseMain(argv, 1,
              Merge(InitialNamespace(MainArgs), [command |-> None]))

\* args.pop(key): the mapping without the key
Pop(ns, key) == [k \in DOMAIN ns \ {key} |-> ns[k]]


(***************************************************************************)
(* The environment: RPC_PORT is unset, a decimal string, or something      *)
(* int() rejects.                                                          *)
(***************************************************************************)
EnvValues == {None, Some("9000"), Some("abc")}

\* int(environ.get('RPC_PORT', 8000)): the port, or None on ValueError
EnvPort(env) ==
    IF env = None THEN Some(8000)
    ELSE Coerce("int", TheValue(env))

\* str(port) inside the f-string of the 'cannot connect' message
StrOf(n) == CASE n = 5 -> "5"
              [] n = 8000 -> "8000"
              [] n = 9000 -> "9000"
              [] OTHER -> "?"

(***************************************************************************)
(* Exceptions, by class.  OSError: what the socket layer raises (refused,  *)
(* reset, unreachable).  RPCError: what the session raises for an error    *)
(* reply or a malformed one.  TaskTimeout: what timeout_after raises when  *)
(* its deadline cancelled the task.  TypeError and AttributeError: what    *)
(* rendering raises on a result of the wrong shape.  All are caught by     *)
(* `except Exception` unless `except OSError` catches them first.          *)
(***************************************************************************)
LibraryErrors == {"OSError", "RPCError"}

IsOSError(k) == k = "OSError"

(***************************************************************************)
(* Results: the JSON value of the reply.  [kind, val]: null; a list of     *)
(* strings; a string, as its characters; a mapping, as its (key, value)    *)
(* pairs in the order received.                                            *)
(***************************************************************************)
Results ==
    << [kind |-> "null", val |-> << >>],
       [kind |-> "list", val |-> << >>],
       [kind |-> "list", val |-> << "l1", "l2" >>],
       [kind |-> "str",  val |-> << "a", "\n", "b" >>],
       [kind |-> "map",  val |-> << << "b", "2" >>, << "a", "1" >> >>] >>

\* what a rendering gives: the strategy taken, the lines printed, and the
\* exception raised (None when none was)
Rendering(strategy, lines, exc) ==
    [strategy |-> strategy, lines |-> lines, exc |-> exc]

\* for line in result: print(line)
LineList(result) ==
    CASE result.kind = "list" ->
            Rendering("LineList",
                      [i \in DOMAIN result.val |-> << result.val[i] >>], None)
      [] result.kind = "str" ->
            Rendering("LineList",
                      [i \in DOMAIN result.val |-> << result.val[i] >>], None)
      [] result.kind = "map" ->
            Rendering("LineList",
                      [i \in DOMAIN result.val |-> << result.val[i][1] >>], None)
      [] OTHER -> Rendering("LineList", << >>, Some("TypeError"))

\* chars.split('\n'): the pieces between the newlines; cur is the piece
\* being read
RECURSIVE Split(_, _, _)
Split(chars, i, cur) ==
    IF i > Len(chars) THEN << cur >>
    ELSE IF chars[i] = "\n"
         THEN << cur >> \o Split(chars, i + 1, << >>)
         ELSE Split(chars, i + 1, Append(cur, chars[i]))

\* for line in result.split('\n'): print(line)
SplitText(result) ==
    IF result.kind = "str"
    THEN Rendering("SplitText", Split(result.val, 1, << >>), None)
    ELSE Rendering("SplitText", << >>, Some("AttributeError"))

\* electrumx.lib.text.<name>_lines(result): one display line per entry of
\* a list
FormatterLines(name, result) ==
    IF result.kind = "list"
    THEN Rendering("NamedLineFormatter",
                   [i \in DOMAIN result.val |-> << name, result.val[i] >>],
                   None)
    ELSE Rendering("NamedLineFormatter", << >>, Some("TypeError"))

\* the keys of JSON objects, in sorted order
KeyOrder == << "a", "b" >>

\* s1, s2, ... joined with sep between them
RECURSIVE Join(_, _)
Join(seqs, sep) ==
    IF seqs = << >> THEN << >>
    ELSE IF Len(seqs) = 1 THEN seqs[1]
    ELSE seqs[1] \o sep \o Join(Tail(seqs), sep)

\* a JSON string: quoted, the newline escaped
JsonString(chars) ==
    << "\"" >> \o
    Join([i \in DOMAIN chars |->
             IF chars[i] = "\n" THEN << "\\n" >> ELSE << chars[i] >>], << >>)
    \o << "\"" >>

\* the pairs of a mapping in the order of their keys (sort_keys=True)
SortKeys(pairs) ==
    LET present == SelectSeq(KeyOrder,
                             LAMBDA k : \E i \in DOMAIN pairs : pairs[i][1] = k)
    IN  [j \in DOMAIN present |->
            pairs[CHOOSE i \in DOMAIN pairs : pairs[i][1] = present[j]]]

\* json.dumps(result, indent=4, sort_keys=True), as its tokens
JsonDumps(result) ==
    CASE result.kind = "null" -> << "null" >>
      [] result.kind = "str" -> JsonString(result.val)
      [] result.kind = "list" ->
            << "[" >> \o
            Join([i \in DOMAIN result.val |-> JsonString(<< result.val[i] >>)],
                 << "," >>)
            \o << "]" >>
      [] result.kind = "map" ->
            LET sorted == SortKeys(result.val) IN
            << "{" >> \o
            Join([i \in DOMAIN sorted |->
                     JsonString(<< sorted[i][1] >>) \o << ":" >>
                     \o JsonString(<< sorted[i][2] >>)],
                 << "," >>)
            \o << "}" >>

\* print(json.dumps(result, indent=4, sort_keys=True))
RawJSON(result) == Rendering("RawJSON", << JsonDumps(result) >>, None)

\* fault: 'groups' missing from the tuple of formatter commands
Render_GroupsAsJson(method, result) ==
    IF method \in {"query"}
    THEN LineList(result)
    ELSE IF method \in {"debug_memusage_list_all_objects",
                       "debug_memusage_get_random_backref_chain"}
    THEN SplitText(result)
    ELSE IF method \in {"peers", "sessions"}
    THEN FormatterLines(method, result)
    ELSE RawJSON(result)

\* the if/elif chain on method that prints the result
Render(method, result) ==
    IF method \in {"query"}
    THEN LineList(result)
    ELSE IF method \in {"debug_memusage_list_all_objects",
                       "debug_memusage_get_random_backref_chain"}
    THEN SplitText(result)
    ELSE IF method \in {"groups", "peers", "sessions"}
    THEN FormatterLines(method, result)
    ELSE RawJSON(result)

\* the two except clauses: the line printed for an exception of class k
FailureMessage(k, port) ==
    IF IsOSError(k)
    THEN << "cannot connect", StrOf(port) >>
    ELSE << "error making request", k >>

\* the value send_request() returns: 0 from the try body, 1 from either
\* except clause
ReturnCode(exc) == IF exc = None THEN 0 ELSE 1


(***************************************************************************)
(* The state of one invocation.                                            *)
(***************************************************************************)
VARIABLES
    argv,       \* sys.argv[1:]
    pc,         \* where main() is: "start", "parsed", the await the task is
                \* suspended at ("connecting", "awaiting", "closing"), "done"
    port,       \* main's port
    method,     \* main's method (NoCommand for None)
    timeout,    \* main's timeout
    args,       \* main's args after the three pops: the params of the call
    now,        \* the event loop's clock, in seconds since main() started
    deadline,   \* the deadline timeout_after armed, None when not armed
    conn,       \* the connection: "none", "connecting", "open", "closed"
    opened,     \* number of connections established
    session,    \* the settings made on the session
    sent,       \* the requests sent, each [method, params]
    received,   \* number of replies received
    result,     \* the reply's result, None before it arrived
    rendered,   \* the rendering strategies applied, in order
    raised,     \* the exception in flight or handled, None when none
    out,        \* the lines printed on standard output
    exitCode    \* the code the process exited with, None while running

vars == << argv, pc, port, method, timeout, args, now, deadline, conn,
           opened, session, sent, received, result, rendered, raised, out,
           exitCode >>

(***************************************************************************)
(* The command lines considered: some main options, then a sub-command     *)
(* name (or a name that is none, or nothing), then up to n tokens.          *)
(***************************************************************************)
Prefixes == { << >>, << "-p", "5" >>, << "--timeout", "5" >>,
              << "--timeout", "abc" >>, << "--bogus" >> }

TailTokens == {"-l", "--limit", "5", "abc", "def"}

Tails(n) == UNION { [1..k -> TailTokens] : k \in 0..n }

Examples == { << "query", "-l", "5", "abc", "def" >> }

ArgvSet(n) ==
    Prefixes
    \cup { p \o << c >> \o t :
             p \in Prefixes, c \in Commands \cup {"nosuch"}, t \in Tails(n) }
    \cup Examples

InitWith(n) ==
    /\ argv \in ArgvSet(n)
    /\ pc = "start"
    /\ port = 0
    /\ method = NoCommand
    /\ timeout = 0
    /\ args = << >>
    /\ now = 0
    /\ deadline = None
    /\ conn = "none"
    /\ opened = 0
    /\ session = << >>
    /\ sent = << >>
    /\ received = 0
    /\ result = None
    /\ rendered = << >>
    /\ raised = None
    /\ out = << >>
    /\ exitCode = None

Init == InitWith(MaxTail)

(***************************************************************************)
(* main(), up to asyncio.run.                                              *)
(***************************************************************************)
\* fault: the pop of 'timeout' left out
PopParams_KeepTimeout(ns) == Pop(Pop(ns, "port"), "command")

\* args = vars(args) without 'port', 'command' and 'timeout'
PopParams(ns) == Pop(Pop(Pop(ns, "port"), "command"), "timeout")

\* parse_args, then the three pops.  argparse exits with 2 on a usage
\* error; an RPC_PORT that int() rejects ends main() with the ValueError
\* (exit code 1, nothing printed on standard output) after 'port' was
\* popped and before 'command' and 'timeout' are.
ParseArgs ==
    /\ pc = "start"
    /\ LET parsed == parse_args(argv) IN
       \/ /\ ~parsed.ok
          /\ exitCode' = Some(2)
          /\ pc' = "done"
          /\ UNCHANGED << port, method, timeout, args >>
       \/ /\ parsed.ok
          /\ \E env \in EnvValues :
                LET p == IF parsed.ns["port"] = None
                         THEN EnvPort(env) ELSE parsed.ns["port"]
                IN  \/ /\ p = None
                       /\ args' = Pop(parsed.ns, "port")
                       /\ exitCode' = Some(1)
                       /\ pc' = "done"
                       /\ UNCHANGED << port, method, timeout >>
                    \/ /\ p # None
                       /\ port' = TheValue(p)
                       /\ method' = IF parsed.ns["command"] = None
                                    THEN NoCommand
                                    ELSE TheValue(parsed.ns["command"])
                       /\ timeout' = TheValue(parsed.ns["timeout"])
                       /\ args' = PopParams(parsed.ns)
                       /\ pc' = "parsed"
                       /\ UNCHANGED exitCode
    /\ UNCHANGED << argv, now, deadline, conn, opened, session, sent,
                    received, result, rendered, raised, out >>

(***************************************************************************)
(* send_request(), the task asyncio.run drives.                            *)
(***************************************************************************)
\* fault: the timer armed with no delay
Deadline_Now(t, secs) == t

\* timeout_after(timeout): the deadline of the timer armed at time t
Deadline(t, secs) == t + secs

\* the task starts: timeout_after arms its timer, connect_rs starts to
\* connect and the task is suspended until the connection is made
StartRequest ==
    /\ pc = "parsed"
    /\ deadline' = Some(Deadline(now, timeout))
    /\ conn' = "connecting"
    /\ pc' = "connecting"
    /\ UNCHANGED << argv, port, method, timeout, args, now, opened, session,
                    sent, received, result, rendered, raised, out, exitCode >>

\* fault: the request sent again
SendRequest_Twice(reqs, m, params) ==
    Append(Append(reqs, [method |-> m, params |-> params]),
           [method |-> m, params |-> params])

\* session.send_request(method, args): the request put on the wire
SendRequest(reqs, m, params) == Append(reqs, [method |-> m, params |-> params])

\* the connection is made: the session is set up (no limit on the size of
\* a reply, the session's own request timeout), the request is sent and
\* the task is suspended until the reply
Connected ==
    /\ pc = "connecting"
    /\ conn' = "open"
    /\ opened' = opened + 1
    /\ session' = [max_size |-> 0, sent_request_timeout |-> timeout]
    /\ sent' = SendRequest(sent, method, args)
    /\ pc' = "awaiting"
    /\ UNCHANGED << argv, port, method, timeout, args, now, deadline,
                    received, result, rendered, raised, out, exitCode >>

\* the connection cannot be made: the exception leaves both `async with`
\* (the timer is cancelled, there is no session to close) and reaches the
\* except clauses
ConnectFails ==
    /\ pc = "connecting"
    /\ \E k \in LibraryErrors :
          /\ raised' = Some(k)
          /\ out' = Append(out, FailureMessage(k, port))
          /\ exitCode' = Some(ReturnCode(Some(k)))
    /\ conn' = "none"
    /\ deadline' = None
    /\ pc' = "done"
    /\ UNCHANGED << argv, port, method, timeout, args, now, opened, session,
                    sent, received, result, rendered >>

\* fault: the session left as it is (no scoped release)
ExitConnection_Leak(c) == c

\* leaving `async with connect_rs(...)`: the session is closed, whether
\* the body ended or raised
ExitConnection(c) == "closed"

\* the reply arrives: the result is rendered by the if/elif chain, which
\* prints or raises; then the body of `async with connect_rs` is left and
\* the task is suspended until the session has closed
ReceiveReply ==
    /\ pc = "awaiting"
    /\ \E i \in DOMAIN Results :
          LET r == Render(method, Results[i]) IN
          /\ result' = Some(Results[i])
          /\ rendered' = Append(rendered, r.strategy)
          /\ out' = out \o r.lines
          /\ raised' = r.exc
    /\ received' = received + 1
    /\ conn' = ExitConnection(conn)
    /\ pc' = "closing"
    /\ UNCHANGED << argv, port, method, timeout, args, now, deadline, opened,
                    session, sent, exitCode >>

\* the call fails (the connection is lost, the server answers with an
\* error, the reply is malformed): the exception leaves the body of
\* `async with connect_rs`, which closes the session
RequestFails ==
    /\ pc = "awaiting"
    /\ \E k \in LibraryErrors : raised' = Some(k)
    /\ conn' = ExitConnection(conn)
    /\ pc' = "closing"
    /\ UNCHANGED << argv, port, method, timeout, args, now, deadline, opened,
                    session, sent, received, result, rendered, out, exitCode >>

\* the session has closed: timeout_after is left (its timer cancelled) and
\* send_request returns 0, or the exception in flight reaches the except
\* clauses, which print and return 1; sys.exit(code)
Closed ==
    /\ pc = "closing"
    /\ deadline' = None
    /\ out' = IF raised = None THEN out
              ELSE Append(out, FailureMessage(TheValue(raised), port))
    /\ exitCode' = Some(ReturnCode(raised))
    /\ pc' = "done"
    /\ UNCHANGED << argv, port, method, timeout, args, now, conn, opened,
                    session, sent, received, result, rendered, raised >>

\* the deadline's timer fires while the task is suspended inside
\* timeout_after: the task is cancelled at the await it is suspended at and
\* timeout_after raises TaskTimeout.  Cancelled while connecting or while
\* the session closes, the exception reaches the except clauses at once;
\* cancelled while awaiting the reply, it first leaves the body of
\* `async with connect_rs`, which closes the session.
TimerFires ==
    /\ pc \in {"connecting", "awaiting", "closing"}
    /\ deadline # None
    /\ now >= TheValue(deadline)
    /\ deadline' = None
    /\ raised' = Some("TaskTimeout")
    /\ \/ /\ pc = "awaiting"
          /\ conn' = ExitConnection(conn)
          /\ pc' = "closing"
          /\ UNCHANGED << out, exitCode >>
       \/ /\ pc \in {"connecting", "closing"}
          /\ conn' = IF pc = "connecting" THEN "none" ELSE conn
          /\ out' = Append(out, FailureMessage("TaskTimeout", port))
          /\ exitCode' = Some(ReturnCode(Some("TaskTimeout")))
          /\ pc' = "done"
    /\ UNCHANGED << argv, port, method, timeout, args, now, opened, session,
                    sent, received, result, rendered >>

\* a second passes while the task is suspended
Tick ==
    /\ pc \in {"connecting", "awaiting", "closing"}
    /\ deadline # None
    /\ now < MaxTick
    /\ now < TheValue(deadline)
    /\ now' = now + 1
    /\ UNCHANGED << argv, pc, port, method, timeout, args, deadline, conn,
                    opened, session, sent, received, result, rendered,
                    raised, out, exitCode >>

\* time passes, while the task is suspended, until the deadline
Elapse ==
    /\ pc \in {"connecting", "awaiting", "closing"}
    /\ deadline # None
    /\ now < TheValue(deadline)
    /\ now' = TheValue(deadline)
    /\ UNCHANGED << argv, pc, port, method, timeout, args, deadline, conn,
                    opened, session, sent, received, result, rendered,
                    raised, out, exitCode >>

Next ==
    \/ ParseArgs
    \/ StartRequest
    \/ Connected
    \/ ConnectFails
    \/ ReceiveReply
    \/ RequestFails
    \/ Closed
    \/ TimerFires
    \/ Tick
    \/ Elapse

Spec == Init /\ [][Next]_vars


(***************************************************************************)
(* The fair runs.  The event loop runs a task that can run (ParseArgs and  *)
(* StartRequest are main()'s own straight-line code), time passes, a timer *)
(* whose deadline is reached fires, and the close of a local socket        *)
(* completes.  Nothing is assumed of the server: it may never accept the   *)
(* connection and never reply.                                             *)
(***************************************************************************)
InitLive == InitWith(LiveMaxTail)

Fairness ==
    /\ WF_vars(ParseArgs)
    /\ WF_vars(StartRequest)
    /\ WF_vars(Elapse)
    /\ WF_vars(TimerFires)
    /\ WF_vars(Closed)

FairSpec == InitLive /\ [][Next]_vars /\ Fairness

(***************************************************************************)
(* Vocabulary of the properties.                                           *)
(***************************************************************************)
\* parse_args returned: the invocation got past argument parsing
ParsePassed == pc # "start" /\ exitCode # Some(2)

\* a reply was received
ReplyReceived == result # None

\* the outcome of the call, by the class of the exception
IsTimeout == raised = Some("TaskTimeout")

Exited == pc = "done"

\* the method is a registered command whose result is rendered by
\* send_request itself (not handed to a formatter of electrumx.lib.text)
RenderedHere == method \in Commands \ {"groups", "peers", "sessions"}


(***************************************************************************)
(* C1.  Once parsing is passed, the exit code is 0 whenever a reply was    *)
(* received and 1 whenever the call failed (connect failure, timeout,      *)
(* protocol failure): a received reply never leads to exit code 1,         *)
(* whatever the command and the shape of the result.                       *)
(***************************************************************************)
C1_ExitCodeByOutcome ==
    (Exited /\ ParsePassed /\ RenderedHere) =>
        /\ ReplyReceived => exitCode = Some(0)
        /\ (~ReplyReceived /\ raised # None) => exitCode = Some(1)

(***************************************************************************)
(* C2.  Every invalid command line (no sub-command, an unknown command     *)
(* name, an unknown flag, a wrong arity, a value of the wrong type) is     *)
(* rejected with a non-zero exit before any network activity: no           *)
(* connection is opened and no request is sent for it.                     *)
(***************************************************************************)
\* no token of the line names a command
NoSubcommand(line) == \A i \in DOMAIN line : line[i] \notin Commands

InvalidCommandLine(line) == NoSubcommand(line) \/ ~parse_args(line).ok

C2_InvalidRejectedBeforeNetwork ==
    InvalidCommandLine(argv) =>
        /\ conn = "none" /\ opened = 0 /\ Len(sent) = 0
        /\ Exited => exitCode \notin {None, Some(0)}


(***************************************************************************)
(* C3.  The connect + send + receive sequence races against one deadline:  *)
(* when the deadline fires before the reply arrived, the pending I/O is    *)
(* cancelled, the outcome is Timeout (a failure, exit code 1) and no       *)
(* result is rendered; when the reply arrives first, the outcome is never  *)
(* Timeout.                                                                *)
(***************************************************************************)
C3_DeadlineRace ==
    RenderedHere =>
      /\ (IsTimeout /\ ~ReplyReceived) =>
            /\ rendered = << >>
            /\ conn \in {"none", "closed"}
            /\ Exited => (exitCode = Some(1)
                          /\ out = << << "error making request", "TaskTimeout" >> >>)
      /\ (ReplyReceived /\ Render(method, TheValue(result)).exc = None) =>
            ~IsTimeout

(***************************************************************************)
(* C4.  At most one connection is opened and at most one request is sent   *)
(* in an invocation; once anything has failed, no further connection or    *)
(* send happens; an invocation that exits with 0 made exactly one send and *)
(* one receive.                                                            *)
(***************************************************************************)
C4_SingleRoundTrip ==
    /\ [](/\ opened <= 1 /\ Len(sent) <= 1 /\ received <= 1
          /\ received <= Len(sent) /\ Len(sent) <= opened
          /\ exitCode = Some(0) =>
                (opened = 1 /\ Len(sent) = 1 /\ received = 1))
    /\ [][raised # None =>
            (opened' = opened /\ sent' = sent /\ conn' # "connecting")]_vars

C4_Witness ==
    Exited /\ exitCode = Some(0) /\ opened = 1 /\ Len(sent) = 1 /\ received = 1

(***************************************************************************)
(* C5.  For every command whose argument declares a default (daemon_url    *)
(* "", query limit 1000, reorg count 3, debug_memusage_list_all_objects    *)
(* limit 50), a line that omits the argument parses and the params carry   *)
(* the default; a line that gives it carries the value given, the items of *)
(* query in order.                                                         *)
(***************************************************************************)
ValidPrefixes == { << >>, << "-p", "5" >>, << "--timeout", "5" >> }

ItemLists == { << "abc" >>, << "def" >>, << "abc", "def" >>, << "def", "abc" >> }

Carries(key, v) == key \in DOMAIN args /\ args[key] = Some(v)

C5_DefaultsAndGivenValues ==
    pc # "start" =>
      \A p \in ValidPrefixes :
        /\ argv = p \o << "daemon_url" >> => Carries("daemon_url", "")
        /\ argv = p \o << "daemon_url", "abc" >> => Carries("daemon_url", "abc")
        /\ argv = p \o << "reorg" >> => Carries("count", 3)
        /\ argv = p \o << "reorg", "5" >> => Carries("count", 5)
        /\ argv = p \o << "debug_memusage_list_all_objects" >> =>
              Carries("limit", 50)
        /\ argv = p \o << "debug_memusage_list_all_objects", "--limit", "5" >> =>
              Carries("limit", 5)
        /\ \A items \in ItemLists :
              /\ argv = p \o << "query" >> \o items =>
                    (Carries("limit", 1000) /\ Carries("items", items))
              /\ argv = p \o << "query", "-l", "5" >> \o items =>
                    (Carries("limit", 5) /\ Carries("items", items))

(***************************************************************************)
(* C6.  For every line that parses, the params sent with the request hold  *)
(* exactly the keys declared for the command, and never the port, the      *)
(* timeout or the command name.                                            *)
(***************************************************************************)
DeclaredKeys(m) ==
    CASE m \in {"getinfo", "groups", "peers", "sessions", "stop"} -> {}
      [] m \in {"disconnect", "log"} -> {"session_ids"}
      [] m = "add_peer" -> {"real_name"}
      [] m = "daemon_url" -> {"daemon_url"}
      [] m = "query" -> {"limit", "items"}
      [] m = "reorg" -> {"count"}
      [] m = "debug_memusage_list_all_objects" -> {"limit"}
      [] m = "debug_memusage_get_random_backref_chain" -> {"objtype"}

ParamsAsDeclared(m, params) ==
    /\ DOMAIN params \cap {"port", "timeout", "command"} = {}
    /\ m \in Commands => DOMAIN params = DeclaredKeys(m)

C6_ParamsKeys ==
    /\ pc \in {"parsed", "connecting", "awaiting", "closing"} =>
          ParamsAsDeclared(method, args)
    /\ \A i \in DOMAIN sent :
          /\ sent[i].method = method
          /\ ParamsAsDeclared(sent[i].method, sent[i].params)

C6_Witness ==
    /\ argv = << "query", "-l", "5", "abc", "def" >>
    /\ Len(sent) = 1
    /\ sent[1].method = "query"
    /\ DOMAIN sent[1].params = {"limit", "items"}
    /\ sent[1].params["limit"] = Some(5)
    /\ sent[1].params["items"] = Some(<< "abc", "def" >>)

(***************************************************************************)
(* C7.  When a reply is received, the rendering strategy is a fixed        *)
(* function of the command name: query prints the elements of the result   *)
(* in order; the two debug_memusage commands print the pieces of the       *)
(* result split at the newlines; groups, peers and sessions print the      *)
(* lines of the formatter of that name; every other command prints the     *)
(* result as key-sorted JSON.  One strategy is applied per invocation.     *)
(***************************************************************************)
ResultFormat(m) ==
    CASE m = "query" -> "LineList"
      [] m \in {"debug_memusage_list_all_objects",
                "debug_memusage_get_random_backref_chain"} -> "SplitText"
      [] m \in {"groups", "peers", "sessions"} -> "NamedLineFormatter"
      [] m \in {"getinfo", "stop", "disconnect", "log", "add_peer",
                "daemon_url", "reorg"} -> "RawJSON"

\* the first lines printed are `lines`
OutStartsWith(lines) ==
    Len(out) >= Len(lines) /\ SubSeq(out, 1, Len(lines)) = lines

C7_RenderingByCommand ==
    /\ Len(rendered) <= 1
    /\ ~ReplyReceived => (rendered = << >> /\ received = 0)
    /\ (ReplyReceived /\ method \in Commands) =>
         LET r == TheValue(result)
             fmt == ResultFormat(method)
         IN  /\ rendered = << fmt >>
             /\ (fmt = "LineList" /\ r.kind = "list") =>
                   OutStartsWith([i \in DOMAIN r.val |-> << r.val[i] >>])
             /\ (fmt = "SplitText" /\ r.kind = "str"
                    /\ r.val = << "a", "\n", "b" >>) =>
                   OutStartsWith(<< << "a" >>, << "b" >> >>)
             /\ (fmt = "NamedLineFormatter" /\ r.kind = "list") =>
                   OutStartsWith([i \in DOMAIN r.val |-> << method, r.val[i] >>])
             /\ (fmt = "RawJSON" /\ r.kind = "map"
                    /\ r.val = << << "b", "2" >>, << "a", "1" >> >>) =>
                   OutStartsWith(<< << "{", "\"", "a", "\"", ":", "\"", "1", "\"",
                                       ",", "\"", "b", "\"", ":", "\"", "2", "\"",
                                       "}" >> >>)

C7_Witness ==
    /\ Exited /\ exitCode = Some(0)
    /\ method = "query"
    /\ rendered = << "LineList" >>
    /\ out = << << "l1" >>, << "l2" >> >>

(***************************************************************************)
(* C8.  Every failed invocation prints exactly one failure message and     *)
(* renders no result: the 'cannot connect' line naming the port for a      *)
(* connection failure, 'error making request:' with the reason for any     *)
(* other failure.                                                          *)
(***************************************************************************)
C8_OneFailureMessage ==
    (Exited /\ raised # None /\ RenderedHere) =>
        /\ exitCode = Some(1)
        /\ out = << IF raised = Some("OSError")
                    THEN << "cannot connect", StrOf(port) >>
                    ELSE << "error making request", TheValue(raised) >> >>

(***************************************************************************)
(* C9.  Every invocation that gets past argument parsing ends with exit    *)
(* code 0 or 1, even when the server never accepts the connection or never *)
(* replies; and Timeout is never reported before the deadline has elapsed. *)
(***************************************************************************)
C9_TerminatesByDeadline ==
    /\ ParsePassed ~> (Exited /\ exitCode \in {Some(0), Some(1)})
    /\ [](IsTimeout => now >= timeout)

C9_Witness ==
    /\ Exited /\ IsTimeout /\ exitCode = Some(1)
    /\ opened = 0 /\ now >= timeout /\ timeout > 0

(***************************************************************************)
(* C10.  The connection is acquired only after parsing succeeded and right *)
(* before the call, and is released on every exit path (completion,        *)
(* timeout while connecting or while awaiting the reply, connection error, *)
(* protocol error, error raised while rendering): no terminal state has    *)
(* the connection still open.                                              *)
(***************************************************************************)
C10_ConnectionReleased ==
    /\ Exited => conn \in {"none", "closed"}
    /\ conn # "none" => ParsePassed
    /\ conn = "open" => (pc = "awaiting" /\ Len(sent) = opened)

C10_Witness ==
    /\ Exited /\ conn = "closed" /\ opened = 1
    /\ raised = Some("TypeError") /\ exitCode = Some(1)

=============================================================================
